---- MODULE Spec2Model ----
(***************************************************************************)
(* Model of the stream filters of nickiptv: vidaa.py (filter_and_label)    *)
(* and supersonic.py (filter_playlist).                                    *)
(*                                                                         *)
(* Strings are sequences of tokens.  A token is an indivisible piece of    *)
(* text ("http://", "amagi.tv", ".m3u8", ","), so that Python's substring  *)
(* test `d in url`, str.startswith, str.strip, str.split(",", 1) and       *)
(* urljoin are computed on the text and not assumed.                       *)
(* Times are integer milliseconds, speeds integer KB/s (the code uses      *)
(* floats; the divisions below are floor divisions).  The HTTP headers a   *)
(* worker builds from the #EXTVLCOPT lines do not influence any step and   *)
(* are not part of the state; the lines themselves are carried along.      *)
(***************************************************************************)
EXTENDS Integers, Sequences, FiniteSets, TLC

VARIABLES
    script,      \* "vidaa" or "supersonic": which file's code runs
    entries,     \* the parsed entries: sequence of [extinf, vlcopts, url]
    responses,   \* the leaf responses the network may give to a segment GET
    semaphore,   \* free slots of asyncio.Semaphore(MAX_CONCURRENCY)
    pc,          \* per task: position of worker()
    frame,       \* per task: locals of check_stream_speed/average_segment_speed
    inflight,    \* per task: the URL of the HTTP request in flight, or NoUrl
    requested,   \* per task: set of URLs an HTTP request was issued to
    fetches,     \* per task: number of playlist GETs issued
    result,      \* per task: what worker() returned (once pc = "done")
    completed,   \* the finished tasks, in completion order
    consumed,    \* how many of them the aggregation loop has consumed
    best,        \* best_by_title / best: key -> stored entry
    main,        \* position of filter_and_label / filter_playlist
    final_entries, \* the sorted surviving entries
    out,         \* the lines written to the output file
    c_speed,     \* classify_speed: the argument
    c_label,     \* classify_speed: the value returned
    meas,        \* one run of measure_segment_speed: its position and locals
    parser,      \* the loop over the input lines: its position and locals
    filt         \* a sequential filter (nbalivefilter*.py): position and locals

vars == <<script, entries, responses, semaphore, pc, frame, inflight, requested,
          fetches, result, completed, consumed, best, main, final_entries, out,
          c_speed, c_label, meas, parser, filt>>

batchVars == <<script, entries, responses, semaphore, pc, frame, inflight,
               requested, fetches, result, completed, consumed, best, main,
               final_entries, out>>

---------------------------------------------------------------------------
(* CONFIG *)

\* Bounds of the model.
NumEntries == 2         \* entries of a batch
MaxSpeedIn == 1700      \* classify_speed is applied to 0..MaxSpeedIn
MaxLines == 4           \* lines of an input playlist given to the parsing loop

\* vidaa.py:12 sets 80; the model runs the same gate with a small number of
\* slots so that tasks do wait at it.
MAX_CONCURRENCY == 1

MAX_HLS_DEPTH == 3
MIN_SPEED_KBPS == 150
MAX_TTFB == 4000        \* milliseconds (4.0 s)
SAMPLE_BYTES == 256000
WARMUP_BYTES == 32000
SEGMENTS_TO_TEST == 2
RETRIES == 2
CHUNK == 8192           \* iter_chunked(8192)
MIN_DURATION == 1       \* max(..., 0.001) s

None == -1              \* Python's None where a number is expected
NoLabel == "None"       \* Python's None where a tier label is expected
NoUrl == <<>>

BLOCKED_DOMAINS == {"amagi.tv", "ssai2-ads.api.leiniao.com"}

---------------------------------------------------------------------------
(* Strings *)

Schemes == {"http://", "https://"}
HashTokens == {"#EXTM3U", "#EXT-X-STREAM-INF", "#EXTINF", "#EXT-X-ENDLIST"}
Blank == {" "}

\* sub in s
Contains(s, tok) == \E i \in 1..Len(s) : s[i] = tok

\* s.startswith(tok)
StartsWith(s, tok) == Len(s) > 0 /\ s[1] = tok

\* s.startswith("#")
StartsWithHash(s) == Len(s) > 0 /\ s[1] \in HashTokens

\* s.strip()
RECURSIVE LStrip(_)
LStrip(s) == IF Len(s) > 0 /\ s[1] \in Blank THEN LStrip(Tail(s)) ELSE s
RECURSIVE RStrip(_)
RStrip(s) ==
    IF Len(s) > 0 /\ s[Len(s)] \in Blank THEN RStrip(SubSeq(s, 1, Len(s) - 1)) ELSE s
Strip(s) == RStrip(LStrip(s))

\* s.lower(), on the tokens titles are made of
LowerTok(tok) ==
    CASE tok = "News" -> "news"
      [] tok = "NEWS" -> "news"
      [] tok = "Sport" -> "sport"
      [] tok = "Channel A" -> "channel a"
      [] OTHER -> tok
Lower(s) == [i \in 1..Len(s) |-> LowerTok(s[i])]

\* s.split(",", 1)
FirstComma(s) ==
    IF Contains(s, ",") THEN CHOOSE i \in 1..Len(s) :
                                 s[i] = "," /\ \A j \in 1..(i - 1) : s[j] # ","
    ELSE 0
SplitComma(s) ==
    IF FirstComma(s) = 0 THEN <<s>>
    ELSE <<SubSeq(s, 1, FirstComma(s) - 1), SubSeq(s, FirstComma(s) + 1, Len(s))>>

\* urllib.parse.urljoin(base, ref) for the references of the model: an
\* absolute URL replaces the base, an empty reference keeps it, a fragment
\* is appended to it, a relative name replaces the last path component.
LastSlash(s) ==
    IF Contains(s, "/") THEN CHOOSE i \in 1..Len(s) :
                                 s[i] = "/" /\ \A j \in (i + 1)..Len(s) : s[j] # "/"
    ELSE Len(s)
FirstHash(s) ==
    IF \E i \in 1..Len(s) : s[i] \in HashTokens
    THEN CHOOSE i \in 1..Len(s) :
             s[i] \in HashTokens /\ \A j \in 1..(i - 1) : s[j] \notin HashTokens
    ELSE Len(s) + 1
StripFragment(url) == SubSeq(url, 1, FirstHash(url) - 1)
urljoin(base, ref) ==
    IF ref = <<>> THEN base
    ELSE IF ref[1] \in Schemes THEN ref
    ELSE IF StartsWithHash(ref) THEN StripFragment(base) \o ref
    ELSE SubSeq(StripFragment(base), 1, LastSlash(StripFragment(base))) \o ref

\* urljoin(base, ref) raises ValueError("Invalid IPv6 URL") when the host of
\* ref has a bracket that is not closed, as in http://[bad/v.m3u8
BadHosts == {"[bad"}
UrljoinRaises(ref) == Len(ref) >= 2 /\ ref[1] \in Schemes /\ ref[2] \in BadHosts

---------------------------------------------------------------------------
(* AUTO LABELING *)

\* the FHD bound made exclusive
ClassifyExclusive(speed) ==
    IF speed >= 1500 THEN "4K"
    ELSE IF speed > 600 THEN "FHD"
    ELSE IF speed >= 300 THEN "HD"
    ELSE IF speed >= 150 THEN "SD"
    ELSE NoLabel

classify_speed(speed) ==
    IF speed >= 1500 THEN "4K"
    ELSE IF speed >= 600 THEN "FHD"
    ELSE IF speed >= 300 THEN "HD"
    ELSE IF speed >= 150 THEN "SD"
    ELSE NoLabel

---------------------------------------------------------------------------
(* SPEED TEST *)

\* `not x` for a number or None
Falsy(x) == x = None \/ x = 0

Max(a, b) == IF a >= b THEN a ELSE b

\* What the network does with one GET of a leaf URL: the status, the chunk
\* whose read raises (0: the GET itself raises, None: nothing raises), the
\* time of the first chunk after the request started, the number of chunks
\* of the body, their size, and the time between two chunks.
Response(status, raises_at, ttfb, n, size, gap) ==
    [status |-> status, raises_at |-> raises_at, ttfb |-> ttfb, n |-> n,
     size |-> size, gap |-> gap]

\* locals of measure_segment_speed before the loop; start is time 0
MeasureLocals ==
    [first_byte |-> None, speed_start |-> None, total |-> 0, measured |-> 0,
     now |-> 0, stop |-> FALSE, raised |-> FALSE]

\* one iteration of `async for chunk in r.content.iter_chunked(8192)`
OnChunk(l, size, now) ==
    LET first_byte == IF l.first_byte = None THEN now ELSE l.first_byte
        total == l.total + size
    IN  IF total < WARMUP_BYTES
        THEN [l EXCEPT !.first_byte = first_byte, !.total = total, !.now = now]
        ELSE [l EXCEPT !.first_byte = first_byte, !.total = total, !.now = now,
                       !.speed_start = IF l.speed_start = None THEN now
                                       ELSE l.speed_start,
                       !.measured = l.measured + size,
                       !.stop = l.measured + size >= SAMPLE_BYTES]

\* the loop over the body of a response, from chunk k on
RECURSIVE ReadBody(_, _, _)
ReadBody(l, resp, k) ==
    IF l.stop \/ k > resp.n THEN l
    ELSE IF resp.raises_at = k THEN [l EXCEPT !.raised = TRUE]
    ELSE ReadBody(OnChunk(l, resp.size, resp.ttfb + (k - 1) * resp.gap), resp, k + 1)

\* (measured / 1024) / duration, duration in milliseconds
Speed(measured, duration) == (measured * 1000) \div (1024 * duration)

\* the code after the loop without the test of the time to the first byte
AfterBodyAnyTtfb(l) ==
    IF Falsy(l.speed_start) THEN None
    ELSE Speed(l.measured, Max(l.now - l.speed_start, MIN_DURATION))

\* the code after the loop
AfterBody(l) ==
    IF Falsy(l.speed_start) THEN None
    ELSE IF l.first_byte - 0 > MAX_TTFB THEN None
    ELSE Speed(l.measured, Max(l.now - l.speed_start, MIN_DURATION))

\* the locals when measure_segment_speed returns
MeasureRun(resp) ==
    IF resp.raises_at = 0 THEN [MeasureLocals EXCEPT !.raised = TRUE]
    ELSE IF resp.status >= 400 THEN MeasureLocals
    ELSE ReadBody(MeasureLocals, resp, 1)

measure_segment_speed(resp) ==
    IF MeasureRun(resp).raised THEN None
    ELSE IF resp.status >= 400 THEN None
    ELSE AfterBody(MeasureRun(resp))

\* leaf responses: 36 chunks arrive 200 ms after the request, `gap` ms apart
Healthy(gap) == Response(200, None, 200, 36, CHUNK, gap)
R_404 == Response(404, None, 100, 0, CHUNK, 0)
R_refused == Response(0, 0, 0, 0, CHUNK, 0)
R_reset == Response(200, 3, 200, 36, CHUNK, 10)
R_late == Response(200, None, MAX_TTFB + 1, 36, CHUNK, 10)
R_intime == Response(200, None, MAX_TTFB, 36, CHUNK, 10)
R_short == Response(200, None, 200, 3, CHUNK, 10)
R_warm == Response(200, None, 200, 4, 8000, 10)
R_empty == Response(200, None, 200, 0, CHUNK, 0)
\* 500 KB/s: 51 chunks of 5020 bytes are measured in 50 * 10 ms
R_500 == Response(200, None, 200, 60, 5020, 10)

BatchResponses == {R_404, Healthy(80), Healthy(10)}
\* every combination of status, failing read, time to the first chunk and
\* length of the body
ResponseGrid ==
    {Response(status, raises_at, ttfb, n, CHUNK, 10) :
        status \in {200, 404}, raises_at \in {None, 0, 3},
        ttfb \in {200, MAX_TTFB, MAX_TTFB + 1}, n \in {0, 3, 36}}
ResolveResponses ==
    ResponseGrid
    \cup {R_404, R_refused, R_reset, R_late, R_intime, R_short, R_warm, R_empty,
          Healthy(80), Healthy(40), Healthy(16), Healthy(10), Healthy(5), R_500}

\* measure_segment_speed on every response of the model, computed once
Measured == [resp \in ResolveResponses |-> measure_segment_speed(resp)]

\* One run of measure_segment_speed, chunk by chunk.  iter_chunked(8192)
\* gives chunks of at most CHUNK bytes; the first one comes after one of
\* FirstByteTimes, the next ones ChunkGap ms apart.
ChunkSizes == {8000, CHUNK}
FirstByteTimes == {200, MAX_TTFB + 1}
ChunkGap == 10

NoMeasure == [at |-> "idle", l |-> MeasureLocals, size |-> 0, value |-> None]

\* `async for chunk in r.content.iter_chunked(8192)`: the next chunk
MeasureChunk ==
    /\ meas.at = "reading"
    /\ ~meas.l.stop
    /\ \E size \in ChunkSizes :
       \E now \in (IF meas.l.first_byte = None THEN FirstByteTimes
                   ELSE {meas.l.now + ChunkGap}) :
           meas' = [meas EXCEPT !.l = OnChunk(meas.l, size, now), !.size = size]
    /\ UNCHANGED <<batchVars, c_speed, c_label, parser, filt>>

\* the loop ends, by `break` or with the body, and the function returns
MeasureReturn ==
    /\ meas.at = "reading"
    /\ meas' = [meas EXCEPT !.at = "returned", !.value = AfterBody(meas.l)]
    /\ UNCHANGED <<batchVars, c_speed, c_label, parser, filt>>

\* reading the body raises: `except Exception: return None`
MeasureRaise ==
    /\ meas.at = "reading"
    /\ ~meas.l.stop
    /\ meas' = [meas EXCEPT !.at = "returned", !.value = None, !.l.raised = TRUE]
    /\ UNCHANGED <<batchVars, c_speed, c_label, parser, filt>>

RECURSIVE Sum(_)
Sum(s) == IF s = <<>> THEN 0 ELSE Head(s) + Sum(Tail(s))

\* the end of average_segment_speed
AverageResult(speeds) ==
    IF Len(speeds) < SEGMENTS_TO_TEST THEN None
    ELSE Sum(speeds) \div Len(speeds)

---------------------------------------------------------------------------
(* The network: the playlists the servers hold *)

Host(file) == <<"http://", "host", "/">> \o file
Ads(file) == <<"http://", "cdn.", "amagi.tv", "/">> \o file

M3U == <<"#EXTM3U">>
StreamInf == <<"#EXT-X-STREAM-INF", ":BANDWIDTH=1">>
ExtInf == <<"#EXTINF", ":4">>

U_stream == Host(<<"stream", ".ts">>)        \* a direct, non-HLS stream
U_ads == Ads(<<"x", ".m3u8">>)               \* a playlist on a blocked domain
U_adsts == Ads(<<"live", ".ts">>)            \* a direct stream on a blocked domain
U_a == Host(<<"a", ".m3u8">>)                \* master -> v
U_v == Host(<<"v", ".m3u8">>)                \* media, three segments
U_short == Host(<<"short", ".m3u8">>)        \* media, one segment
U_loop == Host(<<"loop", ".m3u8">>)          \* master -> itself
U_c0 == Host(<<"c0", ".m3u8">>)              \* master -> c1 -> c2 -> c3 -> v
U_c1 == Host(<<"c1", ".m3u8">>)
U_c2 == Host(<<"c2", ".m3u8">>)
U_c3 == Host(<<"c3", ".m3u8">>)
U_mb == Host(<<"mb", ".m3u8">>)              \* master -> playlist on a blocked domain
U_sb == Host(<<"sb", ".m3u8">>)              \* media, segments on a blocked domain
U_hv == Host(<<"hv", ".m3u8">>)              \* master, a tag follows the stream-inf tag
U_g == Host(<<"g", ".m3u8">>)                \* not a playlist
U_e == Host(<<"e", ".m3u8">>)                \* empty body
U_t == Host(<<"t", ".m3u8">>)                \* media, a stream-inf tag as last line
U_gone == Host(<<"gone", ".m3u8">>)          \* nothing is served there
U_ms == Host(<<"ms", ".m3u8">>)              \* master -> media with one segment
U_mg == Host(<<"mg", ".m3u8">>)              \* master -> not a playlist
U_bv == Host(<<"bv", ".m3u8">>)              \* master, malformed variant reference
U_bs == Host(<<"bs", ".m3u8">>)              \* media, malformed segment reference
U_d == Host(<<"d", ".m3u8">>)                \* master -> sub/w
U_w == Host(<<"sub", "/", "w", ".m3u8">>)    \* media in a directory, three segments

Playlists ==
    {U_a, U_v, U_short, U_loop, U_c0, U_c1, U_c2, U_c3, U_mb, U_sb, U_hv, U_g,
     U_e, U_t, U_ads, U_ms, U_mg, U_bv, U_bs, U_d, U_w}

\* the body of a playlist, after text.splitlines()
Body(u) ==
    CASE u = U_a -> <<M3U, StreamInf, <<" ", "v", ".m3u8", " ">>,
                      StreamInf, <<"gone", ".m3u8">>>>
      [] u = U_v -> <<M3U, ExtInf, <<"s1", ".ts">>, <<>>, ExtInf, <<"s2", ".ts">>,
                      ExtInf, <<"s3", ".ts">>, <<"#EXT-X-ENDLIST">>>>
      [] u = U_short -> <<M3U, ExtInf, <<"s1", ".ts">>>>
      [] u = U_loop -> <<M3U, StreamInf, <<"loop", ".m3u8">>>>
      [] u = U_c0 -> <<M3U, StreamInf, <<"c1", ".m3u8">>>>
      [] u = U_c1 -> <<M3U, StreamInf, <<"c2", ".m3u8">>>>
      [] u = U_c2 -> <<M3U, StreamInf, <<"c3", ".m3u8">>>>
      [] u = U_c3 -> <<M3U, StreamInf, <<"v", ".m3u8">>>>
      [] u = U_mb -> <<M3U, StreamInf, U_ads>>
      [] u = U_sb -> <<M3U, ExtInf, Ads(<<"s1", ".ts">>), ExtInf, Ads(<<"s2", ".ts">>)>>
      [] u = U_hv -> <<M3U, StreamInf, StreamInf, <<"v", ".m3u8">>>>
      [] u = U_g -> <<<<"<html>">>>>
      [] u = U_e -> <<>>
      [] u = U_t -> <<M3U, <<"s1", ".ts">>, <<"s2", ".ts">>, StreamInf>>
      [] u = U_ads -> <<M3U, ExtInf, <<"s1", ".ts">>, ExtInf, <<"s2", ".ts">>>>
      [] u = U_ms -> <<M3U, StreamInf, <<"short", ".m3u8">>>>
      [] u = U_mg -> <<M3U, StreamInf, <<"g", ".m3u8">>>>
      [] u = U_bv -> <<M3U, StreamInf, <<"http://", "[bad", "/", "v", ".m3u8">>>>
      [] u = U_d -> <<M3U, StreamInf, <<"sub", "/", "w", ".m3u8">>>>
      [] u = U_w -> <<M3U, ExtInf, <<"s1", ".ts">>, ExtInf, <<"s2", ".ts">>,
                      ExtInf, <<"s3", ".ts">>>>
      [] u = U_bs -> <<M3U, ExtInf, <<"s1", ".ts">>,
                       ExtInf, <<"http://", "[bad", "/", "s2", ".ts">>>>

\* What the network may answer to the GET of a playlist URL (the fragment
\* of a URL is not sent to the server).
FetchReply(status, raises, lines) ==
    [status |-> status, raises |-> raises, lines |-> lines]
FetchReplies(url) ==
    {FetchReply(404, FALSE, <<>>), FetchReply(0, TRUE, <<>>)}
    \cup (IF StripFragment(url) \in Playlists
          THEN {FetchReply(200, FALSE, Body(StripFragment(url)))}
          ELSE {})

---------------------------------------------------------------------------
(* STREAM CHECK *)

\* What check_stream_speed does next: it returns a value, or it awaits the
\* GET of a playlist, or it awaits average_segment_speed(urls), or an
\* exception leaves it.
Return(value) ==
    [kind |-> "return", value |-> value, url |-> NoUrl, depth |-> 0, urls |-> <<>>]
Fetch(url, depth) ==
    [kind |-> "fetch", value |-> None, url |-> url, depth |-> depth, urls |-> <<>>]
Average(url, depth, urls) ==
    [kind |-> "average", value |-> None, url |-> url, depth |-> depth, urls |-> urls]

Raise ==
    [kind |-> "raise", value |-> None, url |-> NoUrl, depth |-> 0, urls |-> <<>>]

Blocked(url) == \E d \in BLOCKED_DOMAINS : Contains(url, d)

\* check_stream_speed without the test of BLOCKED_DOMAINS
CheckUnblocked(url, depth) ==
    IF depth > MAX_HLS_DEPTH THEN Return(None)
    ELSE IF ~Contains(url, ".m3u8") THEN Average(url, depth, <<url>>)
    ELSE Fetch(url, depth)

\* check_stream_speed(session, url, headers, depth) up to its first await
check_stream_speed(url, depth) ==
    IF depth > MAX_HLS_DEPTH THEN Return(None)
    ELSE IF Blocked(url) THEN Return(None)
    ELSE IF ~Contains(url, ".m3u8") THEN Average(url, depth, <<url>>)
    ELSE Fetch(url, depth)

\* check_stream_speed(session, urljoin(url, ref), headers, depth): the
\* argument is evaluated first, outside any try
Descend(url, ref, depth) ==
    IF UrljoinRaises(ref) THEN Raise ELSE check_stream_speed(urljoin(url, ref), depth)

\* text.startswith("#EXTM3U")
IsM3U(lines) == Len(lines) > 0 /\ StartsWith(lines[1], "#EXTM3U")

\* the first i with lines[i].startswith("#EXT-X-STREAM-INF") and i + 1 < len(lines),
\* counted from 1; 0 when the loop ends without one
MasterLine(lines) ==
    IF \E i \in 1..(Len(lines) - 1) : StartsWith(lines[i], "#EXT-X-STREAM-INF")
    THEN CHOOSE i \in 1..(Len(lines) - 1) :
             /\ StartsWith(lines[i], "#EXT-X-STREAM-INF")
             /\ \A j \in 1..(i - 1) : ~StartsWith(lines[j], "#EXT-X-STREAM-INF")
    ELSE 0

IsSegment(l) == Len(l) > 0 /\ ~StartsWithHash(l)
Segments(lines) == SelectSeq(lines, IsSegment)
FirstN(s, n) == SubSeq(s, 1, IF Len(s) < n THEN Len(s) ELSE n)

\* a media-playlist branch that probes every segment of the playlist
MediaPlaylistAll(url, depth, lines) ==
    IF Len(Segments(lines)) < SEGMENTS_TO_TEST THEN Return(None)
    ELSE IF \E i \in 1..SEGMENTS_TO_TEST : UrljoinRaises(Segments(lines)[i]) THEN Raise
    ELSE Average(url, depth,
                 [i \in 1..Len(Segments(lines)) |-> urljoin(url, Segments(lines)[i])])

\* the media-playlist branch
MediaPlaylist(url, depth, lines) ==
    IF Len(Segments(lines)) < SEGMENTS_TO_TEST THEN Return(None)
    ELSE IF \E i \in 1..SEGMENTS_TO_TEST : UrljoinRaises(Segments(lines)[i]) THEN Raise
    ELSE Average(url, depth,
                 [i \in 1..Len(FirstN(Segments(lines), SEGMENTS_TO_TEST)) |->
                      urljoin(url, Segments(lines)[i])])

\* a master-playlist branch that forgets to count the level it descends
MasterSameDepth(url, depth, lines) ==
    IF ~StartsWithHash(Strip(lines[MasterLine(lines) + 1]))
    THEN Descend(url, Strip(lines[MasterLine(lines) + 1]), depth)
    ELSE Return(None)

\* the master-playlist branch of vidaa.py
MasterVidaa(url, depth, lines) ==
    IF ~StartsWithHash(Strip(lines[MasterLine(lines) + 1]))
    THEN Descend(url, Strip(lines[MasterLine(lines) + 1]), depth + 1)
    ELSE Return(None)

\* the master-playlist branch of supersonic.py
MasterSupersonic(url, depth, lines) ==
    Descend(url, Strip(lines[MasterLine(lines) + 1]), depth + 1)

\* a resolver that gives credit for a master whose variant cannot be fetched
AfterFetchCredit(scr, url, depth, reply) ==
    IF reply.raises \/ reply.status >= 400
    THEN IF depth > 0 THEN Return(MIN_SPEED_KBPS) ELSE Return(None)
    ELSE IF ~IsM3U(reply.lines) THEN Return(None)
    ELSE IF MasterLine(reply.lines) # 0
         THEN IF scr = "vidaa" THEN MasterVidaa(url, depth, reply.lines)
              ELSE MasterSupersonic(url, depth, reply.lines)
    ELSE MediaPlaylist(url, depth, reply.lines)

\* check_stream_speed from the answer to its GET up to its next await
AfterFetch(scr, url, depth, reply) ==
    IF reply.raises THEN Return(None)
    ELSE IF reply.status >= 400 THEN Return(None)
    ELSE IF ~IsM3U(reply.lines) THEN Return(None)
    ELSE IF MasterLine(reply.lines) # 0
         THEN IF scr = "vidaa" THEN MasterVidaa(url, depth, reply.lines)
              ELSE MasterSupersonic(url, depth, reply.lines)
    ELSE MediaPlaylist(url, depth, reply.lines)

---------------------------------------------------------------------------
(* WORKER *)

Tasks == 1..Len(entries)

Entry(extinf, vlcopts, url) == [extinf |-> extinf, vlcopts |-> vlcopts, url |-> url]

\* the title worker() takes from the #EXTINF line
Title(extinf) ==
    IF extinf = <<>> THEN <<>>
    ELSE IF Len(SplitComma(extinf[1])) = 2 THEN Strip(SplitComma(extinf[1])[2])
    ELSE <<>>

\* the tuple worker() returns
Outcome(speed, e) ==
    [speed |-> speed, title |-> Title(e.extinf), extinf |-> e.extinf,
     vlcopts |-> e.vlcopts, url |-> e.url]

NoResponse == Response(0, None, 0, 0, 0, 0)

\* locals of a task that has not entered check_stream_speed
NoFrame ==
    [url |-> NoUrl, depth |-> 0, urls |-> <<>>, idx |-> 0, attempt |-> 0,
     speeds |-> <<>>, last |-> NoResponse, s |-> None]

\* a worker that returns the URL of the playlist it resolved last
FinishResolved(t, speed, sem) ==
    /\ semaphore' = sem + 1
    /\ pc' = [pc EXCEPT ![t] = "done"]
    /\ frame' = [frame EXCEPT ![t] = NoFrame]
    /\ inflight' = [inflight EXCEPT ![t] = NoUrl]
    /\ result' = [result EXCEPT ![t] =
                      Outcome(speed, [entries[t] EXCEPT !.url = frame[t].url])]
    /\ completed' = Append(completed, t)
    /\ UNCHANGED <<requested, fetches>>

\* the end of worker(): check_stream_speed returned `speed` while sem slots
\* were free; the slot is released, the locals are gone and the task completes
Finish(t, speed, sem) ==
    /\ semaphore' = sem + 1
    /\ pc' = [pc EXCEPT ![t] = "done"]
    /\ frame' = [frame EXCEPT ![t] = NoFrame]
    /\ inflight' = [inflight EXCEPT ![t] = NoUrl]
    /\ result' = [result EXCEPT ![t] = Outcome(speed, entries[t])]
    /\ completed' = Append(completed, t)
    /\ UNCHANGED <<requested, fetches>>

\* an exception leaves check_stream_speed while sem slots were free:
\* `async with semaphore` releases the slot and the exception leaves worker(),
\* the task completes without a result
Abort(t, sem) ==
    /\ semaphore' = sem + 1
    /\ pc' = [pc EXCEPT ![t] = "raised"]
    /\ frame' = [frame EXCEPT ![t] = NoFrame]
    /\ inflight' = [inflight EXCEPT ![t] = NoUrl]
    /\ completed' = Append(completed, t)
    /\ UNCHANGED <<requested, fetches, result>>

\* session.get(url) of a playlist is issued
IssueFetch(t, f, sem) ==
    /\ semaphore' = sem
    /\ pc' = [pc EXCEPT ![t] = "fetch"]
    /\ frame' = [frame EXCEPT ![t] = f]
    /\ inflight' = [inflight EXCEPT ![t] = f.url]
    /\ requested' = [requested EXCEPT ![t] = @ \cup {f.url}]
    /\ fetches' = [fetches EXCEPT ![t] = @ + 1]
    /\ UNCHANGED <<result, completed>>

\* measure_segment_speed(urls[idx]) issues its session.get
IssueProbe(t, f, sem) ==
    /\ semaphore' = sem
    /\ pc' = [pc EXCEPT ![t] = "probe"]
    /\ frame' = [frame EXCEPT ![t] = f]
    /\ inflight' = [inflight EXCEPT ![t] = f.urls[f.idx]]
    /\ requested' = [requested EXCEPT ![t] = @ \cup {f.urls[f.idx]}]
    /\ UNCHANGED <<fetches, result, completed>>

\* average_segment_speed goes on to the next url, or returns
NextUrl(t, f, sem) ==
    IF f.idx < Len(f.urls)
    THEN IssueProbe(t, [f EXCEPT !.idx = f.idx + 1, !.attempt = 0], sem)
    ELSE Finish(t, AverageResult(f.speeds), sem)

\* the task runs check_stream_speed on from outcome o to its next await
Proceed(t, f, o, sem) ==
    CASE o.kind = "return" -> Finish(t, o.value, sem)
      [] o.kind = "raise" -> Abort(t, sem)
      [] o.kind = "fetch" ->
            IssueFetch(t, [f EXCEPT !.url = o.url, !.depth = o.depth], sem)
      [] o.kind = "average" ->
            IssueProbe(t, [f EXCEPT !.url = o.url, !.depth = o.depth, !.urls = o.urls,
                                    !.idx = 1, !.attempt = 0, !.speeds = <<>>], sem)

\* a gate that admits whatever the count
CanAcquireAny(sem) == TRUE

\* the gate of `async with semaphore`
CanAcquire(sem) == sem > 0

\* worker(): the task passes `async with semaphore` and enters
\* check_stream_speed(session, url, headers) at depth 0
Admit(t) ==
    /\ main # "crashed"
    /\ pc[t] = "waiting"
    /\ CanAcquire(semaphore)
    /\ Proceed(t, frame[t], check_stream_speed(entries[t].url, 0), semaphore - 1)
    /\ UNCHANGED <<script, entries, responses, consumed, best, main, final_entries,
                   out, c_speed, c_label, meas, parser, filt>>

\* the GET of a playlist is answered
PlaylistAnswer(t) ==
    /\ main # "crashed"
    /\ pc[t] = "fetch"
    /\ \E reply \in FetchReplies(frame[t].url) :
           Proceed(t, frame[t],
                   AfterFetch(script, frame[t].url, frame[t].depth, reply), semaphore)
    /\ UNCHANGED <<script, entries, responses, consumed, best, main, final_entries,
                   out, c_speed, c_label, meas, parser, filt>>

\* measure_segment_speed returns to average_segment_speed
ProbeAnswer(t) ==
    /\ main # "crashed"
    /\ pc[t] = "probe"
    /\ \E resp \in responses :
          LET s == Measured[resp]
              f == [frame[t] EXCEPT !.last = resp, !.s = s]
          IN  IF ~Falsy(s)
              THEN NextUrl(t, [f EXCEPT !.speeds = Append(f.speeds, s)], semaphore)
              ELSE /\ pc' = [pc EXCEPT ![t] = "sleep"]
                   /\ frame' = [frame EXCEPT ![t] = f]
                   /\ inflight' = [inflight EXCEPT ![t] = NoUrl]
                   /\ UNCHANGED <<semaphore, requested, fetches, result, completed>>
    /\ UNCHANGED <<script, entries, responses, consumed, best, main, final_entries,
                   out, c_speed, c_label, meas, parser, filt>>

\* a loop that makes one attempt more than RETRIES
WakeOnceMore(t) ==
    /\ main # "crashed"
    /\ pc[t] = "sleep"
    /\ IF frame[t].attempt + 1 <= RETRIES
       THEN IssueProbe(t, [frame[t] EXCEPT !.attempt = frame[t].attempt + 1], semaphore)
       ELSE NextUrl(t, frame[t], semaphore)
    /\ UNCHANGED <<script, entries, responses, consumed, best, main, final_entries,
                   out, c_speed, c_label, meas, parser, filt>>

\* asyncio.sleep(0.2) ends: the next attempt in range(RETRIES), or the next url
Wake(t) ==
    /\ main # "crashed"
    /\ pc[t] = "sleep"
    /\ IF frame[t].attempt + 1 < RETRIES
       THEN IssueProbe(t, [frame[t] EXCEPT !.attempt = frame[t].attempt + 1], semaphore)
       ELSE NextUrl(t, frame[t], semaphore)
    /\ UNCHANGED <<script, entries, responses, consumed, best, main, final_entries,
                   out, c_speed, c_label, meas, parser, filt>>

---------------------------------------------------------------------------
(* MAIN: the aggregation loop *)

\* the checks without the one of the title
AcceptedUntitled(r) ==
    /\ r.speed # None
    /\ ~(r.speed < MIN_SPEED_KBPS)
    /\ classify_speed(r.speed) # NoLabel

\* the checks an outcome passes before it is compared with the stored one
Accepted(r) ==
    /\ r.title # <<>>
    /\ r.speed # None
    /\ ~(r.speed < MIN_SPEED_KBPS)
    /\ classify_speed(r.speed) # NoLabel

\* key = title.lower().strip()  /  f"{title.lower()}::{label}"
Key(scr, r) ==
    IF scr = "vidaa" THEN Strip(Lower(r.title))
    ELSE Lower(r.title) \o <<"::", classify_speed(r.speed)>>

\* the rewritten #EXTINF line
Relabel(scr, r) ==
    LET parts == SplitComma(r.extinf[1])
        label == classify_speed(r.speed)
    IN  IF scr = "vidaa"
        THEN parts[1] \o <<" ", "group-title=\"", label, "\"", ",", "[", label, "]", " ">>
             \o (IF Len(parts) = 2 THEN parts[2] ELSE r.title)
             \o <<" ", "(", ToString(r.speed), "KB/s)">>
        ELSE parts[1] \o <<" ", "group-title=\"", label, "\"", ",", "[", label, "]", " ">>
             \o parts[2]

\* the dict stored under the key
Stored(scr, r) ==
    [speed |-> r.speed, title |-> r.title,
     extinf |-> IF scr = "vidaa" /\ r.extinf = <<>> THEN r.extinf
                ELSE <<Relabel(scr, r)>> \o Tail(r.extinf),
     vlcopts |-> r.vlcopts, url |-> r.url]

\* replacing on equal speed too
ReplacesOnTie(b, key, speed) == ~(key \in DOMAIN b /\ b[key].speed > speed)

\* replacing whatever the speeds
ReplacesAlways(b, key, speed) == TRUE

\* whether the outcome replaces what is stored under its key
Replaces(b, key, speed) == ~(key \in DOMAIN b /\ b[key].speed >= speed)

\* one iteration of `for coro in asyncio.as_completed(tasks)`
Aggregate(scr, b, r) ==
    IF ~Accepted(r) THEN b
    ELSE IF ~Replaces(b, Key(scr, r), r.speed) THEN b
    ELSE [k \in DOMAIN b \cup {Key(scr, r)} |->
              IF k = Key(scr, r) THEN Stored(scr, r) ELSE b[k]]

\* `await coro` on the next completed task: its tuple is aggregated, or the
\* exception that left worker() is raised again and leaves the loop, the
\* function and asyncio.run, which cancels the tasks that are left
Consume ==
    /\ main = "loop"
    /\ consumed < Len(completed)
    /\ IF pc[completed[consumed + 1]] = "raised"
       THEN /\ main' = "crashed"
            /\ UNCHANGED <<consumed, best>>
       ELSE /\ consumed' = consumed + 1
            /\ best' = Aggregate(script, best, result[completed[consumed + 1]])
            /\ UNCHANGED main
    /\ UNCHANGED <<script, entries, responses, semaphore, pc, frame, inflight,
                   requested, fetches, result, completed, final_entries, out,
                   c_speed, c_label, meas, parser, filt>>

\* str < str on lower-cased titles: by code points, token by token
TokRank(tok) ==
    CASE tok = " " -> 0
      [] tok = "," -> 1
      [] tok = "channel a" -> 2
      [] tok = "news" -> 3
      [] tok = "sport" -> 4
      [] OTHER -> 5
RECURSIVE StrLess(_, _)
StrLess(a, b) ==
    IF b = <<>> THEN FALSE
    ELSE IF a = <<>> THEN TRUE
    ELSE IF TokRank(a[1]) # TokRank(b[1]) THEN TokRank(a[1]) < TokRank(b[1])
    ELSE StrLess(Tail(a), Tail(b))

\* a sort that puts the fastest of a title first
KeyLessFastestFirst(scr, x, y) ==
    \/ StrLess(Lower(x.title), Lower(y.title))
    \/ /\ scr = "supersonic"
       /\ Lower(x.title) = Lower(y.title)
       /\ x.speed > y.speed

\* the sort key: x["title"].lower()  /  (x["title"].lower(), x["speed"])
KeyLess(scr, x, y) ==
    \/ StrLess(Lower(x.title), Lower(y.title))
    \/ /\ scr = "supersonic"
       /\ Lower(x.title) = Lower(y.title)
       /\ x.speed < y.speed

\* sorted(best.values(), key=...)
Sorted(scr, b) ==
    LET n == Cardinality(DOMAIN b)
        order == CHOOSE o \in [1..n -> DOMAIN b] :
                     /\ \A i, j \in 1..n : i # j => o[i] # o[j]
                     /\ \A i, j \in 1..n : i < j => ~KeyLess(scr, b[o[j]], b[o[i]])
    IN  [i \in 1..n |-> b[order[i]]]

\* the lines of the output file
RECURSIVE Render(_)
Render(es) ==
    IF es = <<>> THEN <<>>
    ELSE Head(es).extinf \o Head(es).vlcopts \o <<Head(es).url>> \o Render(Tail(es))

\* the loop has consumed every task: the playlist is sorted and written
Write ==
    /\ main = "loop"
    /\ consumed = Len(entries)
    /\ main' = "done"
    /\ final_entries' = Sorted(script, best)
    /\ out' = <<M3U>> \o Render(Sorted(script, best))
    /\ UNCHANGED <<script, entries, responses, semaphore, pc, frame, inflight,
                   requested, fetches, result, completed, consumed, best,
                   c_speed, c_label, meas, parser, filt>>

---------------------------------------------------------------------------
(* The inputs *)

X_News == <<"#EXTINF", ":-1", ",", "News">>
X_news == <<"#EXTINF", ":-1", ",", " ", "news", " ">>
X_Sport == <<"#EXTINF", ":-1", ",", "Sport">>
X_ChannelA == <<"#EXTINF", ":-1", ",", "Channel A">>
X_nocomma == <<"#EXTINF", ":-1">>
X_blank == <<"#EXTINF", ":-1", ",", " ">>
Opt == <<"#EXTVLCOPT:", "http-referrer", "=", "r">>

BatchEntries ==
    <<Entry(<<X_News>>, <<>>, U_v), Entry(<<X_news>>, <<Opt>>, U_a),
      Entry(<<X_Sport>>, <<>>, U_v), Entry(<<X_blank>>, <<>>, U_v),
      Entry(<<X_News>>, <<>>, U_ads)>>

\* The batches of n entries.  Nothing in the code reads the place of an entry
\* in the list (as_completed schedules the workers as a set), so each batch
\* is listed once, its entries in the order of BatchEntries.
Batches(n) ==
    {[t \in 1..n |-> BatchEntries[pick[t]]] :
        pick \in {f \in [1..n -> 1..Len(BatchEntries)] :
                     \A i \in 1..(n - 1) : f[i] <= f[i + 1]}}

ResolveUrls ==
    {U_stream, U_ads, U_adsts, U_a, U_v, U_short, U_loop, U_c0, U_c1, U_mb, U_sb,
     U_hv, U_g, U_e, U_t, U_gone, U_ms, U_mg, U_bv, U_bs, U_d}
ResolveEntries ==
    {Entry(<<X_News>>, <<>>, u) : u \in ResolveUrls}
    \cup {Entry(x, <<Opt>>, U_v) : x \in {<<>>, <<X_nocomma>>, <<X_blank>>, <<X_news>>}}
    \cup {Entry(<<X_ChannelA>>, <<>>, U_a)}

Scripts == {"vidaa", "supersonic"}

\* the lines an input playlist is made of: two #EXTINF lines, two option
\* directives, a URL with a blank at its end, and an empty line
Opt2 == <<"#EXTVLCOPT:", "http-user-agent", "=", "ua">>
ParseLines == {X_News, X_Sport, Opt, Opt2, U_v \o <<" ">>, <<>>}

---------------------------------------------------------------------------
(* MAIN: the loop over the input lines *)

IsExtInf(line) == StartsWith(line, "#EXTINF")
IsVlcOpt(line) == StartsWith(line, "#EXTVLCOPT:")
IsUrl(line) == Len(line) > 0 /\ line[1] \in Schemes

\* one iteration of `for line in lines`
ParseLine ==
    /\ parser.at = "loop"
    /\ parser.i < Len(parser.lines)
    /\ LET line == parser.lines[parser.i + 1]
       IN  parser' =
               IF IsExtInf(line)
               THEN [parser EXCEPT !.i = @ + 1, !.extinf = <<line>>]
               ELSE IF IsVlcOpt(line)
               THEN [parser EXCEPT !.i = @ + 1, !.vlcopts = Append(@, line)]
               ELSE IF IsUrl(line)
               THEN [parser EXCEPT !.i = @ + 1,
                                   !.entries = Append(@, Entry(parser.extinf,
                                                               parser.vlcopts,
                                                               Strip(line))),
                                   !.extinf = <<>>,
                                   !.vlcopts = <<>>]
               ELSE [parser EXCEPT !.i = @ + 1]
    /\ UNCHANGED <<batchVars, c_speed, c_label, meas, filt>>

\* the loop has read every line
ParseEnd ==
    /\ parser.at = "loop"
    /\ parser.i = Len(parser.lines)
    /\ parser' = [parser EXCEPT !.at = "end"]
    /\ UNCHANGED <<batchVars, c_speed, c_label, meas, filt>>

---------------------------------------------------------------------------
(* The sequential filters: filter_m3u_playlist of nbalivefiltergoogle.py   *)
(* and filter_m3u8 of nbalivefilter.py                                     *)

Files == {"nbalivefiltergoogle", "nbalivefilter"}

\* the lines of an input file: the header, two tags, two URLs (one with
\* blanks around it) and a line of blanks
FilterLines == {M3U, X_News, X_Sport, U_v, <<" ">> \o U_a \o <<" ">>, <<" ">>}

\* what is_stream_playable(url) does: it returns True or False, or (in
\* nbalivefilter.py, when cvlc is not installed) it ends the process
Verdicts(file) ==
    IF file = "nbalivefilter" THEN {"accepted", "rejected", "exit"}
    ELSE {"accepted", "rejected"}

NoFilter ==
    [file |-> "none", at |-> "idle", lines |-> <<>>, i |-> 0, buffer_tags |-> <<>>,
     output_lines |-> <<>>, verdict |-> <<>>, out |-> <<>>]

\* filter_m3u8 writes a header line at once
FilterLineHeaderKept(f, line, v) ==
    IF line = M3U
    THEN [f EXCEPT !.i = @ + 1, !.verdict = Append(@, "none"),
                   !.output_lines = Append(@, line)]
    ELSE IF StartsWithHash(line)
    THEN [f EXCEPT !.i = @ + 1, !.verdict = Append(@, "none"),
                   !.buffer_tags = Append(@, line)]
    ELSE IF Strip(line) # <<>>
    THEN IF v = "exit" THEN [f EXCEPT !.at = "exited"]
         ELSE [f EXCEPT !.i = @ + 1, !.verdict = Append(@, v),
                        !.output_lines = IF v = "accepted"
                                         THEN @ \o f.buffer_tags \o <<Strip(line)>>
                                         ELSE @,
                        !.buffer_tags = <<>>]
    ELSE [f EXCEPT !.i = @ + 1, !.verdict = Append(@, "none")]

\* one iteration of `for line in lines` when is_stream_playable gives v
FilterLineOf(f, line, v) ==
    IF f.file = "nbalivefilter" THEN FilterLineHeaderKept(f, line, v)
    ELSE IF StartsWithHash(line)
    THEN [f EXCEPT !.i = @ + 1, !.verdict = Append(@, "none"),
                   !.buffer_tags = Append(@, line)]
    ELSE IF Strip(line) # <<>>
    THEN [f EXCEPT !.i = @ + 1, !.verdict = Append(@, v),
                   !.output_lines = IF v = "accepted"
                                    THEN @ \o f.buffer_tags \o <<Strip(line)>>
                                    ELSE @,
                   !.buffer_tags = <<>>]
    ELSE [f EXCEPT !.i = @ + 1, !.verdict = Append(@, "none")]

FilterLine ==
    /\ filt.at = "loop"
    /\ filt.i < Len(filt.lines)
    /\ \E v \in Verdicts(filt.file) :
           filt' = FilterLineOf(filt, filt.lines[filt.i + 1], v)
    /\ UNCHANGED <<batchVars, c_speed, c_label, meas, parser>>

\* the loop is over: the output file is written
FilterWrite ==
    /\ filt.at = "loop"
    /\ filt.i = Len(filt.lines)
    /\ filt' = [filt EXCEPT !.at = "written", !.out = filt.output_lines]
    /\ UNCHANGED <<batchVars, c_speed, c_label, meas, parser>>

---------------------------------------------------------------------------
(* The specifications *)

InitRun(inputs, rs) ==
    /\ script \in Scripts
    /\ entries \in inputs
    /\ responses = rs
    /\ semaphore = MAX_CONCURRENCY
    /\ pc = [t \in 1..Len(entries) |-> "waiting"]
    /\ frame = [t \in 1..Len(entries) |-> NoFrame]
    /\ inflight = [t \in 1..Len(entries) |-> NoUrl]
    /\ requested = [t \in 1..Len(entries) |-> {}]
    /\ fetches = [t \in 1..Len(entries) |-> 0]
    /\ result = [t \in 1..Len(entries) |-> Outcome(None, Entry(<<>>, <<>>, NoUrl))]
    /\ completed = <<>>
    /\ consumed = 0
    /\ best = <<>>
    /\ main = "loop"
    /\ final_entries = <<>>
    /\ out = <<>>
    /\ c_speed = 0
    /\ c_label = classify_speed(0)

\* no run of measure_segment_speed or of the loop over the input lines
NoParser ==
    [at |-> "idle", lines |-> <<>>, i |-> 0, extinf |-> <<>>, vlcopts |-> <<>>,
     entries |-> <<>>]
Idle == meas = NoMeasure /\ parser = NoParser /\ filt = NoFilter

\* a batch of NumEntries entries
Init == InitRun(Batches(NumEntries), BatchResponses) /\ Idle

Next ==
    \/ \E t \in Tasks : Admit(t)
    \/ \E t \in Tasks : PlaylistAnswer(t)
    \/ \E t \in Tasks : ProbeAnswer(t)
    \/ \E t \in Tasks : Wake(t)
    \/ Consume
    \/ Write

Spec == Init /\ [][Next]_vars

\* one entry, every kind of URL and of network answer
InitResolve == InitRun({<<e>> : e \in ResolveEntries}, ResolveResponses) /\ Idle

SpecResolve == InitResolve /\ [][Next]_vars

\* The event loop runs every task that can run, every HTTP operation ends
\* (ClientTimeout bounds it) and every sleep ends.
TaskStep(t) ==
    /\ t \in Tasks
    /\ (Admit(t) \/ PlaylistAnswer(t) \/ ProbeAnswer(t) \/ Wake(t))
Fairness ==
    /\ \A t \in 1..NumEntries : WF_vars(TaskStep(t))
    /\ WF_vars(Consume)
    /\ WF_vars(Write)

FairResolve == InitResolve /\ [][Next]_vars /\ Fairness

\* classify_speed applied to every speed of 0..MaxSpeedIn
InitClassify ==
    /\ InitRun({<<>>}, {})
    /\ script = "vidaa"
    /\ Idle

Classify ==
    /\ \E speed \in 0..MaxSpeedIn :
           /\ c_speed' = speed
           /\ c_label' = classify_speed(speed)
    /\ UNCHANGED <<batchVars, meas, parser, filt>>

SpecClassify == InitClassify /\ [][Classify]_vars

\* measure_segment_speed after a response of status 200, for every
\* sequence of chunks of the sizes of ChunkSizes
InitMeasure ==
    /\ InitRun({<<>>}, {})
    /\ meas = [NoMeasure EXCEPT !.at = "reading"]
    /\ parser = NoParser
    /\ filt = NoFilter

NextMeasure == MeasureChunk \/ MeasureReturn \/ MeasureRaise

SpecMeasure == InitMeasure /\ [][NextMeasure]_vars

\* the loop over the lines of every input playlist of MaxLines lines
InitParse ==
    /\ InitRun({<<>>}, {})
    /\ meas = NoMeasure
    /\ \E lines \in [1..MaxLines -> ParseLines] :
           parser = [NoParser EXCEPT !.at = "loop", !.lines = lines]
    /\ filt = NoFilter

NextParse == ParseLine \/ ParseEnd

SpecParse == InitParse /\ [][NextParse]_vars

\* a sequential filter on every input file of MaxLines lines:
\* lines = [line.rstrip() for line in f]
InitFilter ==
    /\ InitRun({<<>>}, {})
    /\ script = "vidaa"
    /\ meas = NoMeasure
    /\ parser = NoParser
    /\ \E file \in Files, raw \in [1..MaxLines -> FilterLines] :
           filt = [NoFilter EXCEPT !.file = file, !.at = "loop",
                                   !.lines = [k \in 1..MaxLines |-> RStrip(raw[k])]]

NextFilter == FilterLine \/ FilterWrite

SpecFilter == InitFilter /\ [][NextFilter]_vars

---------------------------------------------------------------------------
(* The claims *)

\* the task is inside `async with semaphore`
HoldsSlot(t) == pc[t] \in {"fetch", "probe", "sleep"}
Holders == {t \in Tasks : HoldsSlot(t)}
InFlight == {t \in Tasks : inflight[t] # NoUrl}

\* C1: at most MAX_CONCURRENCY tasks are inside check_stream_speed, every
\* HTTP request in flight belongs to a task that holds a slot, so at most
\* MAX_CONCURRENCY requests are in flight, and a task that has not been
\* admitted has issued no request.
C1_GateBounded ==
    /\ Cardinality(Holders) <= MAX_CONCURRENCY
    /\ semaphore = MAX_CONCURRENCY - Cardinality(Holders)
    /\ InFlight \subseteq Holders
    /\ Cardinality(InFlight) <= MAX_CONCURRENCY
    /\ \A t \in Tasks : pc[t] = "waiting" => requested[t] = {} /\ fetches[t] = 0

\* every slot is taken by requests in flight while another task waits
C1_Witness ==
    /\ semaphore = 0
    /\ Cardinality(InFlight) = MAX_CONCURRENCY
    /\ \E t \in Tasks : pc[t] = "waiting"

\* C2: an entry whose own URL contains a blocked domain is rejected at depth
\* 0 (speed None) with no HTTP request issued for it, and is not in the output.
C2_BlockedEntryRejected ==
    \A t \in Tasks :
        Blocked(entries[t].url) =>
            /\ pc[t] \in {"waiting", "done"}
            /\ requested[t] = {}
            /\ fetches[t] = 0
            /\ inflight[t] = NoUrl
            /\ pc[t] = "done" => result[t].speed = None
            /\ \A i \in DOMAIN final_entries : final_entries[i].url # entries[t].url
            /\ \A i \in DOMAIN out : out[i] # entries[t].url

C2_Witness ==
    /\ main = "done"
    /\ \E t \in Tasks : Blocked(entries[t].url) /\ pc[t] = "done"

\* C3: no HTTP request, playlist fetch or probe, is ever issued to a URL that
\* contains a blocked domain.
C3_NoRequestToBlocked ==
    \A t \in Tasks : \A u \in requested[t] : ~Blocked(u)

\* C4: a playlist is fetched at depths 0..MAX_HLS_DEPTH only, the depth is
\* the number of variants followed, at most MAX_HLS_DEPTH + 1 playlists are
\* fetched per entry, and a chain of masters deeper than MAX_HLS_DEPTH (or a
\* master that refers to itself) ends in rejection.
C4_DepthBounded ==
    \A t \in Tasks :
        /\ frame[t].depth <= MAX_HLS_DEPTH
        /\ fetches[t] <= MAX_HLS_DEPTH + 1
        /\ pc[t] = "fetch" => fetches[t] = frame[t].depth + 1
        /\ (pc[t] = "done" /\ entries[t].url \in {U_c0, U_loop}) =>
               result[t].speed = None

\* the four masters of the chain were fetched and the entry was rejected
C4_Witness ==
    \E t \in Tasks :
        /\ entries[t].url = U_c0
        /\ pc[t] = "done"
        /\ requested[t] = {U_c0, U_c1, U_c2, U_c3}

\* the successful measurements when average_segment_speed returns in a step
Successes(t) == Len(frame[t].speeds) + (IF pc[t] = "probe" THEN 1 ELSE 0)

\* C5: average_segment_speed(urls) returns None exactly when fewer than
\* len(urls) URLs were measured, so a non-HLS entry whose single probe
\* succeeds gets a speed.
C5_AverageOverUrls ==
    [][\A t \in Tasks :
          (pc[t] \in {"probe", "sleep"} /\ pc'[t] = "done") =>
              (result'[t].speed = None <=> Successes(t) < Len(frame[t].urls))]_vars

\* the checks the claims put on an outcome
Passes(r) == r.title # <<>> /\ r.speed # None /\ r.speed >= MIN_SPEED_KBPS
NormTitle(title) == Strip(Lower(title))
Pos(t) == CHOOSE i \in 1..Len(completed) : completed[i] = t
SameTitle(t, u) == NormTitle(result[t].title) = NormTitle(result[u].title)

\* t has the greatest speed of the passing outcomes of its title, and
\* completed first among those of that speed
Wins(t) ==
    /\ Passes(result[t])
    /\ \A u \in Tasks :
           (Passes(result[u]) /\ SameTitle(t, u)) =>
               \/ result[u].speed < result[t].speed
               \/ result[u].speed = result[t].speed /\ Pos(t) <= Pos(u)

\* C6: the output of filter_and_label holds, for each normalized title with
\* a passing outcome, exactly one entry: the fastest one, and among equally
\* fast ones the one that completed first.
C6_DedupKeepsFastest ==
    (main = "done" /\ script = "vidaa") =>
        /\ \A t \in Tasks :
               Passes(result[t]) =>
                   Cardinality({i \in DOMAIN final_entries :
                       NormTitle(final_entries[i].title) = NormTitle(result[t].title)}) = 1
        /\ \A i \in DOMAIN final_entries :
               \E t \in Tasks :
                   /\ Wins(t)
                   /\ final_entries[i].speed = result[t].speed
                   /\ final_entries[i].title = result[t].title
                   /\ final_entries[i].url = result[t].url
                   /\ final_entries[i].vlcopts = result[t].vlcopts

\* the slower of two streams of one title completed first
C6_Witness ==
    /\ main = "done"
    /\ script = "vidaa"
    /\ \E t, u \in Tasks :
           /\ Passes(result[t]) /\ Passes(result[u]) /\ SameTitle(t, u)
           /\ result[t].url # result[u].url
           /\ result[t].speed < result[u].speed
           /\ Pos(t) < Pos(u)

\* the key of a stored entry under the policy of the script
SameKey(x, y) ==
    /\ NormTitle(x.title) = NormTitle(y.title)
    /\ script = "supersonic" => classify_speed(x.speed) = classify_speed(y.speed)

\* the outcome the loop consumes next
Consuming == result[completed[consumed + 1]]

Tiers == {"SD", "HD", "FHD", "4K"}

\* C8: what the map and the output hold has a title, a speed of at least
\* MIN_SPEED_KBPS and a tier; an outcome without one of them never changes
\* the map.
C8_OnlyPassingStored ==
    /\ [](/\ \A k \in DOMAIN best :
                /\ Passes(best[k])
                /\ classify_speed(best[k].speed) \in Tiers
          /\ \A i \in DOMAIN final_entries :
                /\ Passes(final_entries[i])
                /\ classify_speed(final_entries[i].speed) \in Tiers)
    /\ [][(consumed' = consumed + 1 /\ ~Passes(Consuming)) => best' = best]_vars

\* bytes were measured for a titled entry, at less than MIN_SPEED_KBPS
C8_Witness ==
    \E i \in 1..consumed :
        /\ result[completed[i]].title # <<>>
        /\ result[completed[i]].speed # None
        /\ result[completed[i]].speed < MIN_SPEED_KBPS
        /\ best = <<>>

TierRank(label) ==
    CASE label = "SD" -> 1
      [] label = "HD" -> 2
      [] label = "FHD" -> 3
      [] label = "4K" -> 4
      [] OTHER -> 0

\* C9: classify_speed gives SD for 150..299, HD for 300..599, FHD for
\* 600..1499, 4K from 1500 on and no tier below 150, and a higher speed
\* never gets a lower tier.
C9_ClassifyExact ==
    /\ [](/\ c_speed < 150 => c_label = NoLabel
          /\ c_speed >= 150 => c_label \in Tiers
          /\ c_label = "SD" <=> (150 <= c_speed /\ c_speed <= 299)
          /\ c_label = "HD" <=> (300 <= c_speed /\ c_speed <= 599)
          /\ c_label = "FHD" <=> (600 <= c_speed /\ c_speed <= 1499)
          /\ c_label = "4K" <=> 1500 <= c_speed)
    /\ [][c_speed' >= c_speed => TierRank(c_label') >= TierRank(c_label)]_vars

C9_Witness == c_speed = 600 /\ c_label = "FHD"

\* what one GET of a leaf did, read from the response of the network
Raised(resp) ==
    \/ resp.raises_at = 0
    \/ /\ resp.status < 400
       /\ 1 <= resp.raises_at /\ resp.raises_at <= resp.n
       /\ (resp.raises_at - 1) * resp.size < SAMPLE_BYTES
Received(resp) == resp.n * resp.size
TooLate(resp) == resp.n > 0 /\ resp.ttfb > MAX_TTFB

\* C10: measure_segment_speed returns None when the status is >= 400, an
\* exception occurs, the first chunk comes later than MAX_TTFB or fewer than
\* WARMUP_BYTES were received, and a speed otherwise; a non-HLS entry whose
\* URL answers 404 is absent from the output.
C10_MeasureRejects ==
    /\ [](\A t \in Tasks :
             frame[t].last # NoResponse =>
                 /\ frame[t].s = None <=>
                        \/ frame[t].last.status >= 400
                        \/ Raised(frame[t].last)
                        \/ TooLate(frame[t].last)
                        \/ Received(frame[t].last) < WARMUP_BYTES
                 /\ frame[t].s # None => frame[t].s > 0)
    /\ [][\A t \in Tasks :
             (/\ ~Contains(entries[t].url, ".m3u8")
              /\ pc[t] = "sleep"
              /\ frame[t].last.status >= 400
              /\ pc'[t] = "done") => result'[t].speed = None]_vars
    /\ [](\A t \in Tasks :
             (main = "done" /\ result[t].speed = None) =>
                 \A i \in DOMAIN final_entries : final_entries[i].url # entries[t].url)

\* the body came, but its first chunk later than MAX_TTFB
C10_Witness ==
    \E t \in Tasks :
        /\ pc[t] = "sleep"
        /\ frame[t].last.status = 200
        /\ Received(frame[t].last) >= WARMUP_BYTES + SAMPLE_BYTES
        /\ frame[t].last.ttfb > MAX_TTFB
        /\ frame[t].s = None

\* the masters of the model whose variant is rejected whatever the network does
DeadVariant == {U_mb, U_ms, U_mg, U_loop, U_c0}

\* C11: when the variant a master names is rejected (failed fetch, body that
\* is no playlist, blocked domain, too few segments, failed probes) the entry
\* is rejected: the call at depth d returns what the call at depth d + 1
\* returns, and no other rendition of the master is requested.
C11_VariantFailurePropagates ==
    /\ [](\A t \in Tasks :
             /\ entries[t].url = U_a => requested[t] \cap {U_gone} = {}
             /\ (pc[t] = "done" /\ entries[t].url \in DeadVariant) =>
                    /\ result[t].speed = None
                    /\ \A i \in DOMAIN out : out[i] # entries[t].url)
    /\ [][\A t \in Tasks :
             (frame[t].depth >= 1 /\ pc'[t] = "done") =>
                 /\ pc[t] = "fetch" => result'[t].speed = None
                 /\ pc[t] = "sleep" => result'[t].speed = None
                 /\ (pc[t] = "probe" /\ Len(frame[t].speeds) + 1 < Len(frame[t].urls))
                        => result'[t].speed = None]_vars

\* the master was fetched, the fetch of its variant failed, the entry is
\* rejected
C11_Witness ==
    \E t \in Tasks :
        /\ entries[t].url = U_a
        /\ pc[t] = "done"
        /\ requested[t] = {U_a, U_v}
        /\ result[t].speed = None

\* C12: whatever fails while an entry is processed, its worker completes
\* with a result (of absent speed), the loop consumes one outcome for each
\* entry and the batch is not aborted.
C12_FailureContained ==
    /\ \A i \in 1..Len(completed) : pc[completed[i]] = "done"
    /\ main \in {"loop", "done"}

\* the entry of the scenario and the lines written for it
ChannelA == Entry(<<X_ChannelA>>, <<>>, U_a)
ChannelALine(scr) ==
    <<"#EXTINF", ":-1", " ", "group-title=\"", "HD", "\"", ",", "[", "HD", "]", " ",
      "Channel A">>
    \o (IF scr = "vidaa" THEN <<" ", "(", "500", "KB/s)">> ELSE <<>>)

\* the lines of the output that are URLs
UrlLines(lines) == {lines[i] : i \in {j \in DOMAIN lines : lines[j][1] \in Schemes}}

\* C13: the URL written for a surviving entry is the URL of the input entry,
\* whatever playlists were followed for it.  The entry 'Channel A' at
\* http://host/a.m3u8, a master whose variant lists segments measured at
\* 500 KB/s, is written once, labelled HD, with http://host/a.m3u8.
C13_UrlPreserved ==
    main = "done" =>
        /\ \A i \in DOMAIN final_entries :
               \E t \in Tasks :
                   /\ final_entries[i].url = entries[t].url
                   /\ final_entries[i].speed = result[t].speed
        /\ UrlLines(out) = {final_entries[i].url : i \in DOMAIN final_entries}
        /\ \A t \in Tasks :
               (entries[t] = ChannelA /\ result[t].speed = 500) =>
                   out = <<M3U, ChannelALine(script), U_a>>

\* the scenario: the master, its variant and the first two segments of the
\* variant were requested, both segments measured at 500 KB/s
C13_Witness ==
    /\ main = "done"
    /\ entries = <<ChannelA>>
    /\ result[1].speed = 500
    /\ requested[1] = {U_a, U_v, Host(<<"s1", ".ts">>), Host(<<"s2", ".ts">>)}
    /\ Len(out) = 3

\* the order of the claim: lower-cased title, then (title::tier policy) speed
Before(x, y) ==
    \/ StrLess(Lower(x.title), Lower(y.title))
    \/ /\ script = "supersonic"
       /\ Lower(x.title) = Lower(y.title)
       /\ x.speed < y.speed
IsUrlLine(l) == Len(l) > 0 /\ l[1] \in Schemes

\* C14: the entries written are in ascending order of lower-cased title and,
\* in supersonic.py, of speed within a title, whatever the order the tasks
\* completed in; each stored entry is written once, after one header line.
C14_SortedOutput ==
    main = "done" =>
        /\ \A i \in 1..(Len(final_entries) - 1) :
               Before(final_entries[i], final_entries[i + 1])
        /\ Len(final_entries) = Cardinality(DOMAIN best)
        /\ {final_entries[i] : i \in DOMAIN final_entries} = {best[k] : k \in DOMAIN best}
        /\ out[1] = M3U
        /\ Cardinality({i \in DOMAIN out : out[i] = M3U}) = 1
        /\ SelectSeq(out, IsUrlLine) =
               [i \in 1..Len(final_entries) |-> final_entries[i].url]

\* two tiers of one title are written, the slower first, and the task of the
\* slower one completed last
C14_Witness ==
    /\ main = "done"
    /\ script = "supersonic"
    /\ Len(final_entries) = 2
    /\ Lower(final_entries[1].title) = Lower(final_entries[2].title)
    /\ final_entries[1].speed < final_entries[2].speed
    /\ \E t, u \in Tasks :
           /\ Pos(u) < Pos(t)
           /\ result[t].url = final_entries[1].url
           /\ result[t].speed = final_entries[1].speed
           /\ result[u].url = final_entries[2].url
           /\ result[u].speed = final_entries[2].speed

\* every answer the network can give to the GET of the playlist is a failure
FetchFails(url) ==
    \A reply \in FetchReplies(url) : reply.raises \/ reply.status >= 400

\* C15: the leaf URLs are probed in the order of the list, each at most
\* RETRIES times, a success moves on to the next URL, a failure is followed
\* by the backoff sleep before the next attempt; a playlist is fetched once
\* per level, and after a failed fetch the entry issues no request.
C15_RetryPolicy ==
    /\ [](\A t \in Tasks :
             /\ frame[t].attempt < RETRIES
             /\ pc[t] \in {"probe", "sleep"} => frame[t].idx \in 1..Len(frame[t].urls)
             /\ pc[t] = "probe" => inflight[t] = frame[t].urls[frame[t].idx]
             /\ pc[t] = "sleep" => inflight[t] = NoUrl /\ Falsy(frame[t].s)
             /\ pc[t] = "fetch" => fetches[t] = frame[t].depth + 1)
    /\ [][\A t \in Tasks :
             /\ (pc[t] \notin {"probe", "sleep"} /\ pc'[t] = "probe") =>
                    frame'[t].idx = 1 /\ frame'[t].attempt = 0
             /\ (pc[t] = "probe" /\ pc'[t] = "probe") =>
                    /\ ~Falsy(frame'[t].s)
                    /\ frame'[t].idx = frame[t].idx + 1
                    /\ frame'[t].attempt = 0
             /\ (pc[t] = "probe" /\ pc'[t] = "sleep") =>
                    /\ frame'[t].idx = frame[t].idx
                    /\ frame'[t].attempt = frame[t].attempt
             /\ (pc[t] = "probe" /\ pc'[t] = "done") => frame[t].idx = Len(frame[t].urls)
             /\ (pc[t] = "sleep" /\ pc'[t] = "probe") =>
                    \/ /\ frame'[t].idx = frame[t].idx
                       /\ frame'[t].attempt = frame[t].attempt + 1
                    \/ /\ frame'[t].idx = frame[t].idx + 1
                       /\ frame'[t].attempt = 0
                       /\ frame[t].attempt = RETRIES - 1
             /\ (pc[t] = "sleep" /\ pc'[t] = "done") =>
                    /\ frame[t].idx = Len(frame[t].urls)
                    /\ frame[t].attempt = RETRIES - 1
             /\ (pc[t] = "fetch" /\ FetchFails(frame[t].url) /\ pc'[t] # "fetch") =>
                    pc'[t] = "done" /\ requested'[t] = requested[t]
             /\ pc[t] \in {"done", "raised"} =>
                    /\ pc'[t] = pc[t]
                    /\ requested'[t] = requested[t]
                    /\ fetches'[t] = fetches[t]]_vars

\* the first segment was measured, the second failed RETRIES times
C15_Witness ==
    \E t \in Tasks :
        /\ pc[t] = "sleep"
        /\ frame[t].idx = 2
        /\ frame[t].attempt = RETRIES - 1
        /\ Len(frame[t].speeds) = 1

\* C16: whenever measure_segment_speed returns a speed, the bytes it counted
\* are the bytes received less WARMUP_BYTES, and the loop is left at the
\* first chunk that brings the count to SAMPLE_BYTES.
C16_WarmupExcluded ==
    /\ (meas.at = "returned" /\ meas.value # None) =>
           meas.l.measured = meas.l.total - WARMUP_BYTES
    /\ meas.l.stop <=> meas.l.measured >= SAMPLE_BYTES
    /\ meas.l.stop => meas.l.measured - meas.size < SAMPLE_BYTES

\* C17: of a master playlist only the line after the first stream-inf tag
\* is resolved, and when that line starts with '#' the entry is rejected at
\* once: no request follows the fetch of the master.  Both scripts.
C17_FirstRenditionOnly ==
    \A t \in Tasks :
        /\ entries[t].url = U_a => requested[t] \subseteq {U_a, U_v} \cup
                                       {Host(<<"s1", ".ts">>), Host(<<"s2", ".ts">>)}
        /\ entries[t].url = U_hv =>
               /\ requested[t] \subseteq {U_hv}
               /\ fetches[t] <= 1
               /\ pc[t] \in {"waiting", "fetch", "done"}
               /\ pc[t] = "done" => result[t].speed = None

\* the segments of the playlists of the model
Seg(name) == Host(<<name, ".ts">>)
SubSeg(name) == Host(<<"sub", "/", name, ".ts">>)
Probing(t) == pc[t] \in {"probe", "sleep"}

\* C18: a media playlist with fewer than SEGMENTS_TO_TEST segment lines is
\* rejected and no segment of it is requested; of any other media playlist
\* the first SEGMENTS_TO_TEST segment lines, joined to the URL of the
\* playlist, are probed in their order, and no other segment is requested.
C18_MediaSegments ==
    \A t \in Tasks :
        /\ entries[t].url = U_short =>
               ~Probing(t) /\ requested[t] \subseteq {U_short}
        /\ entries[t].url = U_ms =>
               ~Probing(t) /\ requested[t] \subseteq {U_ms, U_short}
        /\ (entries[t].url \in {U_short, U_ms} /\ pc[t] = "done") =>
               result[t].speed = None
        /\ entries[t].url \in {U_v, U_t} =>
               /\ requested[t] \in {{}, {entries[t].url},
                                    {entries[t].url, Seg("s1")},
                                    {entries[t].url, Seg("s1"), Seg("s2")}}
               /\ Probing(t) => frame[t].urls = <<Seg("s1"), Seg("s2")>>
        /\ entries[t].url = U_d =>
               /\ requested[t] \in {{}, {U_d}, {U_d, U_w},
                                    {U_d, U_w, SubSeg("s1")},
                                    {U_d, U_w, SubSeg("s1"), SubSeg("s2")}}
               /\ Probing(t) => frame[t].urls = <<SubSeg("s1"), SubSeg("s2")>>
        /\ Probing(t) =>
               /\ frame[t].idx \in 1..Len(frame[t].urls)
               /\ Contains(entries[t].url, ".m3u8") =>
                      Len(frame[t].urls) = SEGMENTS_TO_TEST
        /\ pc[t] = "probe" => inflight[t] = frame[t].urls[frame[t].idx]
        /\ (pc[t] = "done" /\ result[t].speed # None) =>
               /\ entries[t].url \in {U_v, U_t} =>
                      requested[t] = {entries[t].url, Seg("s1"), Seg("s2")}
               /\ entries[t].url = U_d =>
                      requested[t] = {U_d, U_w, SubSeg("s1"), SubSeg("s2")}

\* the first two of the three segments of sub/w.m3u8 were measured
C18_Witness ==
    \E t \in Tasks :
        /\ entries[t].url = U_d
        /\ pc[t] = "done"
        /\ result[t].speed # None
        /\ requested[t] = {U_d, U_w, SubSeg("s1"), SubSeg("s2")}

\* C19: with fair scheduling and HTTP operations that end, every worker is
\* admitted, gives its slot back and yields its outcome, the loop consumes
\* one outcome per entry, and then, and only then, the output is written.
C19_BatchCompletes ==
    /\ <>[](\A t \in Tasks : pc[t] = "done" /\ semaphore = MAX_CONCURRENCY)
    /\ <>[](main = "done" /\ consumed = Len(entries))
    /\ [](main = "done" => consumed = Len(entries) /\ \A t \in Tasks : pc[t] = "done")

\* the place in lines of the URL line the j-th entry was made at
UrlIndex(lines, j) ==
    CHOOSE u \in 1..Len(lines) :
        /\ IsUrl(lines[u])
        /\ Cardinality({k \in 1..u : IsUrl(lines[k])}) = j

\* the place of the line that starts the block of the URL line u: the last
\* #EXTINF or URL line before it, 0 when there is none
BlockStart(lines, u) ==
    IF \E k \in 1..(u - 1) : IsExtInf(lines[k]) \/ IsUrl(lines[k])
    THEN CHOOSE k \in 1..(u - 1) :
             /\ IsExtInf(lines[k]) \/ IsUrl(lines[k])
             /\ \A m \in (k + 1)..(u - 1) : ~(IsExtInf(lines[m]) \/ IsUrl(lines[m]))
    ELSE 0

\* C20: the entry made at a URL line has the #EXTINF line of its block and
\* exactly the option directives between that line and the URL line, not
\* those of an earlier #EXTINF block without URL; after a URL line both
\* accumulators are empty.
C20_EntryAssembly ==
    /\ \A j \in 1..Len(parser.entries) :
           LET u == UrlIndex(parser.lines, j)
               k == BlockStart(parser.lines, u)
           IN  /\ parser.entries[j].url = Strip(parser.lines[u])
               /\ parser.entries[j].extinf =
                      (IF k > 0 /\ IsExtInf(parser.lines[k]) THEN <<parser.lines[k]>>
                       ELSE <<>>)
               /\ parser.entries[j].vlcopts =
                      SelectSeq(SubSeq(parser.lines, k + 1, u - 1), IsVlcOpt)
    /\ (parser.i > 0 /\ IsUrl(parser.lines[parser.i])) =>
           parser.extinf = <<>> /\ parser.vlcopts = <<>>

\* the output the claim describes, from line i on, for the verdicts given:
\* the leading header, then for each accepted URL the tags of its block
\* and the URL
RECURSIVE ClaimWalk(_, _, _, _)
ClaimWalk(lines, verdict, i, tags) ==
    IF i > Len(lines) THEN <<>>
    ELSE IF i = 1 /\ lines[i] = M3U THEN <<M3U>> \o ClaimWalk(lines, verdict, i + 1, tags)
    ELSE IF StartsWithHash(lines[i])
         THEN ClaimWalk(lines, verdict, i + 1, Append(tags, lines[i]))
    ELSE IF Strip(lines[i]) = <<>> THEN ClaimWalk(lines, verdict, i + 1, tags)
    ELSE (IF verdict[i] = "accepted" THEN tags \o <<Strip(lines[i])>> ELSE <<>>)
         \o ClaimWalk(lines, verdict, i + 1, <<>>)

\* C21: the output of a sequential filter is the input in its order without
\* the rejected URLs and their tags: each accepted URL comes right after
\* the '#' lines that stood between it and the URL line before it, and the
\* leading #EXTM3U line is in the output whatever URLs are rejected.
C21_SequentialFilter ==
    filt.at = "written" =>
        /\ filt.lines[1] = M3U => \E k \in DOMAIN filt.out : filt.out[k] = M3U
        /\ filt.out = ClaimWalk(filt.lines, filt.verdict, 1, <<>>)

====
